---------------------------- MODULE Spec2Model ----------------------------
(***************************************************************************)
(* extract_discriminators.py: Anchor instruction discriminators.           *)
(*                                                                         *)
(* A Python str is modelled as the sequence of its Unicode code points, a  *)
(* bytes object as a sequence of integers 0..255, and a 32-bit word of     *)
(* SHA-256 as the pair <<hi, lo>> of its 16-bit halves, so that no         *)
(* intermediate value leaves the integer range of the model checker and    *)
(* additions are taken modulo 2^32 explicitly.                             *)
(***************************************************************************)
EXTENDS Integers, Sequences, FiniteSets, TLC

(***************************************************************************)
(* str.encode(): UTF-8.  A lone surrogate code point (U+D800..U+DFFF)      *)
(* cannot be encoded: CPython raises UnicodeEncodeError.                   *)
(***************************************************************************)
IsSurrogate(cp) == cp >= 55296 /\ cp <= 57343

EncodeCodePoint(cp) ==
    IF cp < 128 THEN <<cp>>
    ELSE IF cp < 2048 THEN <<192 + (cp \div 64), 128 + (cp % 64)>>
    ELSE IF cp < 65536 THEN
        <<224 + (cp \div 4096), 128 + ((cp \div 64) % 64), 128 + (cp % 64)>>
    ELSE <<240 + (cp \div 262144), 128 + ((cp \div 4096) % 64),
           128 + ((cp \div 64) % 64), 128 + (cp % 64)>>

\* an encoder that takes ASCII only: str.encode("ascii")
CanEncodeAscii(s) == \A i \in DOMAIN s : s[i] < 128

CanEncode(s) == \A i \in DOMAIN s : ~IsSurrogate(s[i])

RECURSIVE Utf8(_)
Utf8(s) ==
    IF s = <<>> THEN <<>> ELSE EncodeCodePoint(Head(s)) \o Utf8(Tail(s))

(***************************************************************************)
(* hashlib.sha256: FIPS 180-4 SHA-256 on 32-bit words <<hi, lo>>.          *)
(***************************************************************************)
\* 2^n for n in 0..16
PowersOfTwo ==
    <<1, 2, 4, 8, 16, 32, 64, 128, 256, 512, 1024, 2048, 4096, 8192, 16384,
      32768, 65536>>

Pow2(n) == PowersOfTwo[n + 1]

\* bitwise XOR and AND of two naturals, bit by bit
RECURSIVE XorBits(_, _)
XorBits(a, b) ==
    IF a = 0 THEN b
    ELSE IF b = 0 THEN a
    ELSE ((a + b) % 2) + 2 * XorBits(a \div 2, b \div 2)

RECURSIVE AndBits(_, _)
AndBits(a, b) ==
    IF a = 0 \/ b = 0 THEN 0
    ELSE ((a % 2) * (b % 2)) + 2 * AndBits(a \div 2, b \div 2)

\* the same on 4-bit digits, tabulated once
XorTable == [a \in 0..15 |-> [b \in 0..15 |-> XorBits(a, b)]]
AndTable == [a \in 0..15 |-> [b \in 0..15 |-> AndBits(a, b)]]

\* bitwise XOR and AND of two 16-bit values, one hexadecimal digit at a time
Xor16(a, b) ==
    XorTable[a \div 4096][b \div 4096] * 4096
    + XorTable[(a \div 256) % 16][(b \div 256) % 16] * 256
    + XorTable[(a \div 16) % 16][(b \div 16) % 16] * 16
    + XorTable[a % 16][b % 16]

And16(a, b) ==
    AndTable[a \div 4096][b \div 4096] * 4096
    + AndTable[(a \div 256) % 16][(b \div 256) % 16] * 256
    + AndTable[(a \div 16) % 16][(b \div 16) % 16] * 16
    + AndTable[a % 16][b % 16]

WXor(x, y) == <<Xor16(x[1], y[1]), Xor16(x[2], y[2])>>

WAdd(x, y) ==
    LET lo == x[2] + y[2]
    IN  <<(x[1] + y[1] + (lo \div 65536)) % 65536, lo % 65536>>

\* x >>> n (rotate right), 0 < n < 32
ROTR(x, n) ==
    LET h == IF n >= 16 THEN x[2] ELSE x[1]
        l == IF n >= 16 THEN x[1] ELSE x[2]
        k == IF n >= 16 THEN n - 16 ELSE n
        p == Pow2(k)
        q == Pow2(16 - k)
    IN  IF k = 0 THEN <<h, l>>
        ELSE <<(h \div p) + (l % p) * q, (l \div p) + (h % p) * q>>

\* x >> n (shift right, zero fill), 0 < n < 16
SHR(x, n) ==
    LET p == Pow2(n)
        q == Pow2(16 - n)
    IN  <<x[1] \div p, (x[2] \div p) + (x[1] % p) * q>>

\* Ch(e, f, g) = (e AND f) XOR (NOT e AND g); the two terms share no bit
Ch(e, f, g) ==
    <<And16(e[1], f[1]) + And16(65535 - e[1], g[1]),
      And16(e[2], f[2]) + And16(65535 - e[2], g[2])>>

\* Maj(a, b, c) = (a AND b) XOR (a AND c) XOR (b AND c)
Maj(a, b, c) ==
    <<Xor16(Xor16(And16(a[1], b[1]), And16(a[1], c[1])), And16(b[1], c[1])),
      Xor16(Xor16(And16(a[2], b[2]), And16(a[2], c[2])), And16(b[2], c[2]))>>

BigSigma0(x) == WXor(WXor(ROTR(x, 2), ROTR(x, 13)), ROTR(x, 22))
BigSigma1(x) == WXor(WXor(ROTR(x, 6), ROTR(x, 11)), ROTR(x, 25))
SmallSigma0(x) == WXor(WXor(ROTR(x, 7), ROTR(x, 18)), SHR(x, 3))
SmallSigma1(x) == WXor(WXor(ROTR(x, 17), ROTR(x, 19)), SHR(x, 10))

\* the round constants K[0..63]
K256 == <<
    <<17034, 12184>>, <<28983, 17553>>, <<46528, 64463>>, <<59829, 56229>>,
    <<14678, 49755>>, <<23025, 4593>>, <<37439, 33444>>, <<43804, 24277>>,
    <<55303, 43672>>, <<4739, 23297>>, <<9265, 34238>>, <<21772, 32195>>,
    <<29374, 23924>>, <<32990, 45566>>, <<39900, 1703>>, <<49563, 61812>>,
    <<58523, 27073>>, <<61374, 18310>>, <<4033, 40390>>, <<9228, 41420>>,
    <<11753, 11375>>, <<19060, 33962>>, <<23728, 43484>>, <<30457, 35034>>,
    <<38974, 20818>>, <<43057, 50797>>, <<45059, 10184>>, <<48985, 32711>>,
    <<50912, 3059>>, <<54695, 37191>>, <<1738, 25425>>, <<5161, 10599>>,
    <<10167, 2693>>, <<11803, 8504>>, <<19756, 28156>>, <<21304, 3347>>,
    <<25866, 29524>>, <<30314, 2747>>, <<33218, 51502>>, <<37490, 11397>>,
    <<41663, 59553>>, <<43034, 26187>>, <<49739, 35696>>, <<51052, 20899>>,
    <<53650, 59417>>, <<54937, 1572>>, <<62478, 13701>>, <<4202, 41072>>,
    <<6564, 49430>>, <<7735, 27656>>, <<10056, 30540>>, <<13488, 48309>>,
    <<14620, 3251>>, <<20184, 43594>>, <<23452, 51791>>, <<26670, 28659>>,
    <<29839, 33518>>, <<30885, 25455>>, <<33992, 30740>>, <<36039, 520>>,
    <<37054, 65530>>, <<42064, 27883>>, <<48889, 41975>>, <<50801, 30962>> >>

\* the initial hash value H(0)
H256 == <<
    <<27145, 58983>>, <<47975, 44677>>, <<15470, 62322>>, <<42319, 62778>>,
    <<20750, 21119>>, <<39685, 26764>>, <<8067, 55723>>, <<23520, 52505>> >>

\* the message followed by 0x80, zeros up to 56 mod 64, and the bit length
\* as a 64-bit big-endian integer
Pad(msg) ==
    LET n == Len(msg)
        z == (119 - (n % 64)) % 64
        bits == 8 * n
    IN  msg \o <<128>> \o [i \in 1..z |-> 0]
            \o <<0, 0, 0, 0, (bits \div 16777216) % 256,
                 (bits \div 65536) % 256, (bits \div 256) % 256, bits % 256>>

\* word t (0..15) of the 64-byte block starting after byte off
BlockWord(m, off, t) ==
    <<m[off + 4 * t + 1] * 256 + m[off + 4 * t + 2],
      m[off + 4 * t + 3] * 256 + m[off + 4 * t + 4]>>

\* W extended by the schedule word W[t] = s1(W[t-2]) + W[t-7] + s0(W[t-15]) + W[t-16]
ScheduleWord(W) ==
    LET t == Len(W) + 1
    IN  Append(W, WAdd(WAdd(SmallSigma1(W[t - 2]), W[t - 7]),
                       WAdd(SmallSigma0(W[t - 15]), W[t - 16])))

\* the loop "for t = lo .. hi: W[t] = ...", in increasing t.  The range is
\* split in halves and the first half is computed (its length read) before
\* the second starts, which bounds the depth of the evaluation.
RECURSIVE Schedule(_, _, _)
Schedule(W, lo, hi) ==
    IF lo = hi THEN ScheduleWord(W)
    ELSE LET mid == (lo + hi) \div 2
             A == Schedule(W, lo, mid)
         IN  CASE Len(A) = mid -> Schedule(A, mid + 1, hi)

\* one round on the working variables v = <<a, b, c, d, e, f, g, h>>
Round(v, W, t) ==
    LET T1 == WAdd(WAdd(WAdd(v[8], BigSigma1(v[5])),
                        WAdd(Ch(v[5], v[6], v[7]), K256[t])), W[t])
        T2 == WAdd(BigSigma0(v[1]), Maj(v[1], v[2], v[3]))
    IN  <<WAdd(T1, T2), v[1], v[2], v[3], WAdd(v[4], T1), v[5], v[6], v[7]>>

\* the loop "for t = lo .. hi: round t", in increasing t, split likewise
RECURSIVE Rounds(_, _, _, _)
Rounds(v, W, lo, hi) ==
    IF lo = hi THEN Round(v, W, lo)
    ELSE LET mid == (lo + hi) \div 2
             u == Rounds(v, W, lo, mid)
         IN  CASE Len(u) = 8 -> Rounds(u, W, mid + 1, hi)

Compress(H, m, off) ==
    LET W == Schedule(<<BlockWord(m, off, 0), BlockWord(m, off, 1),
                        BlockWord(m, off, 2), BlockWord(m, off, 3),
                        BlockWord(m, off, 4), BlockWord(m, off, 5),
                        BlockWord(m, off, 6), BlockWord(m, off, 7),
                        BlockWord(m, off, 8), BlockWord(m, off, 9),
                        BlockWord(m, off, 10), BlockWord(m, off, 11),
                        BlockWord(m, off, 12), BlockWord(m, off, 13),
                        BlockWord(m, off, 14), BlockWord(m, off, 15)>>,
                      17, 64)
        v == Rounds(H, W, 1, 64)
    IN  <<WAdd(H[1], v[1]), WAdd(H[2], v[2]), WAdd(H[3], v[3]),
          WAdd(H[4], v[4]), WAdd(H[5], v[5]), WAdd(H[6], v[6]),
          WAdd(H[7], v[7]), WAdd(H[8], v[8])>>

RECURSIVE Blocks(_, _, _)
Blocks(H, m, off) ==
    IF off >= Len(m) THEN H ELSE Blocks(Compress(H, m, off), m, off + 64)

WordBytes(w) == <<w[1] \div 256, w[1] % 256, w[2] \div 256, w[2] % 256>>

\* hashlib.sha256(data).digest(): 32 bytes, H0 first, big-endian
Sha256Digest(data) ==
    LET H == Blocks(H256, Pad(data), 0)
    IN  WordBytes(H[1]) \o WordBytes(H[2]) \o WordBytes(H[3])
            \o WordBytes(H[4]) \o WordBytes(H[5]) \o WordBytes(H[6])
            \o WordBytes(H[7]) \o WordBytes(H[8])

(***************************************************************************)
(* The script                                                              *)
(***************************************************************************)
VARIABLES
    pc,            \* the line of the script about to run, "done" or "error"
    instructions,  \* the global list
    it,            \* the for loop's iterator: items of the list consumed
    ix,            \* the loop variable
    disc,          \* the global disc
    out,           \* the lines written to standard output
    calls          \* every call of get_discriminator so far, with its outcome

vars == <<pc, instructions, it, ix, disc, out, calls>>

\* the literal "global:" of the f-string (line 10)
GlobalPrefix == <<103, 108, 111, 98, 97, 108, 58>>

\* what a call returns or raises
Returned(v) == [raised |-> FALSE, value |-> v]
Raised == [raised |-> TRUE, value |-> <<>>]

\* get_discriminator with the slice taken at the other end: digest()[-8:]
get_discriminator_tail(name) ==
    LET full_name == GlobalPrefix \o name
    IN  IF CanEncode(full_name)
        THEN Returned(SubSeq(Sha256Digest(Utf8(full_name)), 25, 32))
        ELSE Raised

\* get_discriminator with the slice one byte short: digest()[:7]
get_discriminator_short(name) ==
    LET full_name == GlobalPrefix \o name
    IN  IF CanEncode(full_name)
        THEN Returned(SubSeq(Sha256Digest(Utf8(full_name)), 1, 7))
        ELSE Raised

\* get_discriminator with one hash object shared by all calls, updated by
\* each call: the digest covers what the earlier calls fed it too
RECURSIVE FedSoFar(_)
FedSoFar(cs) ==
    IF cs = <<>> THEN <<>>
    ELSE FedSoFar(SubSeq(cs, 1, Len(cs) - 1))
             \o (IF cs[Len(cs)].raised THEN <<>>
                 ELSE Utf8(GlobalPrefix \o cs[Len(cs)].name))

get_discriminator_shared(name) ==
    LET full_name == GlobalPrefix \o name
    IN  IF CanEncode(full_name)
        THEN Returned(SubSeq(Sha256Digest(FedSoFar(calls) \o Utf8(full_name)),
                             1, 8))
        ELSE Raised

\* get_discriminator with the f prefix of the string literal forgotten:
\* the text hashed is "global:{name}" whatever the name
get_discriminator_literal(name) ==
    LET full_name == GlobalPrefix \o <<123, 110, 97, 109, 101, 125>>
    IN  Returned(SubSeq(Sha256Digest(Utf8(full_name)), 1, 8))

\* def get_discriminator(name): the first 8 bytes of the digest as a list,
\* or the UnicodeEncodeError of full_name.encode()
get_discriminator(name) ==
    LET full_name == GlobalPrefix \o name
    IN  IF CanEncode(full_name)
        THEN Returned(SubSeq(Sha256Digest(Utf8(full_name)), 1, 8))
        ELSE Raised

\* the list literal bound to "instructions" (lines 13-25)
InstructionList == <<
    \* "initialize"
    <<105, 110, 105, 116, 105, 97, 108, 105, 122, 101>>,
    \* "executeTransferHook"
    <<101, 120, 101, 99, 117, 116, 101, 84, 114, 97, 110, 115, 102, 101,
      114, 72, 111, 111, 107>>,
    \* "updateFeeConfig"
    <<117, 112, 100, 97, 116, 101, 70, 101, 101, 67, 111, 110, 102, 105,
      103>>,
    \* "addWhitelist"
    <<97, 100, 100, 87, 104, 105, 116, 101, 108, 105, 115, 116>>,
    \* "removeWhitelist"
    <<114, 101, 109, 111, 118, 101, 87, 104, 105, 116, 101, 108, 105, 115,
      116>>,
    \* "addBlacklist"
    <<97, 100, 100, 66, 108, 97, 99, 107, 108, 105, 115, 116>>,
    \* "removeBlacklist"
    <<114, 101, 109, 111, 118, 101, 66, 108, 97, 99, 107, 108, 105, 115,
      116>>,
    \* "setPermanentDelegate"
    <<115, 101, 116, 80, 101, 114, 109, 97, 110, 101, 110, 116, 68, 101,
      108, 101, 103, 97, 116, 101>>,
    \* "setBlacklistEnabled"
    <<115, 101, 116, 66, 108, 97, 99, 107, 108, 105, 115, 116, 69, 110,
      97, 98, 108, 101, 100>>,
    \* "setPaused"
    <<115, 101, 116, 80, 97, 117, 115, 101, 100>>,
    \* "closeConfig"
    <<99, 108, 111, 115, 101, 67, 111, 110, 102, 105, 103>> >>

\* the argument of the first print (line 27)
Title ==
    <<83, 83, 83, 45, 50, 32, 72, 111, 111, 107, 32, 73, 110, 115, 116,
      114, 117, 99, 116, 105, 111, 110, 32, 68, 105, 115, 99, 114, 105,
      109, 105, 110, 97, 116, 111, 114, 115, 58>>

SeparatorChar == 61
SeparatorCount == 50

\* the separator with the count mistyped: "=" * 5
SeparatorShort == [i \in 1..5 |-> SeparatorChar]

\* "=" * 50 (line 28)
Separator == [i \in 1..SeparatorCount |-> SeparatorChar]

\* str(n) of an integer n >= 0: its decimal digits
RECURSIVE IntStr(_)
IntStr(n) == IF n < 10 THEN <<48 + n>> ELSE IntStr(n \div 10) \o <<48 + (n % 10)>>

\* str(list of int): "[" + ", ".join(...) + "]"
RECURSIVE JoinInts(_)
JoinInts(l) ==
    IF l = <<>> THEN <<>>
    ELSE IF Len(l) = 1 THEN IntStr(l[1])
    ELSE IntStr(l[1]) \o <<44, 32>> \o JoinInts(Tail(l))

ListStr(l) == <<91>> \o JoinInts(l) \o <<93>>

FieldWidth == 25

\* format(s, ">25s"): the padding put before s
Format25sRight(s) ==
    IF Len(s) >= FieldWidth THEN s
    ELSE [i \in 1..(FieldWidth - Len(s)) |-> 32] \o s

\* format(s, "25s"): s followed by spaces up to the width, never cut
Format25s(s) ==
    IF Len(s) >= FieldWidth THEN s
    ELSE s \o [i \in 1..(FieldWidth - Len(s)) |-> 32]

\* f"{ix:25s}: {disc}" (line 31)
FormatLine(name, d) == Format25s(name) \o <<58, 32>> \o ListStr(d)

\* ix and disc before the loop binds them
Unbound == <<-1>>

\* names a caller that imported the module passes to get_discriminator: the
\* empty string, two names of the list, a name differing in case only,
\* non-ASCII text (2-, 3- and 4-byte code points), a name of 50 characters
\* (two SHA-256 blocks), and two strings holding a lone surrogate
TestNames == {
    <<>>,
    InstructionList[1],
    InstructionList[11],
    <<73, 110, 105, 116, 105, 97, 108, 105, 122, 101>>,
    <<233, 8364, 128512>>,
    [i \in 1..50 |-> 97],
    <<55296>>,
    <<97, 57343, 98>> }

\* calls a caller makes after the script has run
MaxCalls == 2

Init ==
    /\ pc = "L27"
    /\ instructions = InstructionList
    /\ it = 0
    /\ ix = Unbound
    /\ disc = Unbound
    /\ out = <<>>
    /\ calls = <<>>

\* print(line): the line is appended to standard output
print(line) == out' = Append(out, line)

\* a get_discriminator that also consumes the global list
InvokePopping(name) ==
    /\ calls' = Append(calls, [name |-> name] @@ get_discriminator(name))
    /\ instructions' = Tail(instructions)
    /\ UNCHANGED out

\* a call of get_discriminator(name): its outcome is recorded and the
\* globals and the output stay as they are
Invoke(name) ==
    /\ calls' = Append(calls, [name |-> name] @@ get_discriminator(name))
    /\ UNCHANGED <<instructions, out>>

\* line 27
PrintTitle ==
    /\ pc = "L27"
    /\ print(Title)
    /\ pc' = "L28"
    /\ UNCHANGED <<instructions, it, ix, disc, calls>>

\* line 28
PrintSeparator ==
    /\ pc = "L28"
    /\ print(Separator)
    /\ pc' = "L29"
    /\ UNCHANGED <<instructions, it, ix, disc, calls>>

\* the loop walking the list from its end: reversed(instructions)
ForNextReversed ==
    /\ pc = "L29"
    /\ IF it < Len(instructions)
       THEN /\ ix' = instructions[Len(instructions) - it]
            /\ it' = it + 1
            /\ pc' = "L30"
       ELSE /\ pc' = "done"
            /\ UNCHANGED <<ix, it>>
    /\ UNCHANGED <<instructions, disc, out, calls>>

\* the loop leaving one item early: instructions[:-1]
ForNextEarlyExit ==
    /\ pc = "L29"
    /\ IF it < Len(instructions) - 1
       THEN /\ ix' = instructions[it + 1]
            /\ it' = it + 1
            /\ pc' = "L30"
       ELSE /\ pc' = "done"
            /\ UNCHANGED <<ix, it>>
    /\ UNCHANGED <<instructions, disc, out, calls>>

\* line 29: the list iterator yields the next item, or the loop ends
ForNext ==
    /\ pc = "L29"
    /\ IF it < Len(instructions)
       THEN /\ ix' = instructions[it + 1]
            /\ it' = it + 1
            /\ pc' = "L30"
       ELSE /\ pc' = "done"
            /\ UNCHANGED <<ix, it>>
    /\ UNCHANGED <<instructions, disc, out, calls>>

\* line 30: disc = get_discriminator(ix); an exception ends the script
CallDiscriminator ==
    /\ pc = "L30"
    /\ Invoke(ix)
    /\ IF calls'[Len(calls')].raised
       THEN pc' = "error" /\ disc' = disc
       ELSE pc' = "L31" /\ disc' = calls'[Len(calls')].value
    /\ UNCHANGED <<it, ix>>

\* line 31
PrintLine ==
    /\ pc = "L31"
    /\ print(FormatLine(ix, disc))
    /\ pc' = "L29"
    /\ UNCHANGED <<instructions, it, ix, disc, calls>>

\* after the script has run, a caller of the module calls the function
Call(name) ==
    /\ pc = "done"
    /\ Len(calls) < it + MaxCalls
    /\ Invoke(name)
    /\ UNCHANGED <<pc, it, ix, disc>>

Next ==
    \/ PrintTitle
    \/ PrintSeparator
    \/ ForNext
    \/ CallDiscriminator
    \/ PrintLine
    \/ \E name \in TestNames : Call(name)

Spec == Init /\ [][Next]_vars

\* the statements of the script
Script ==
    PrintTitle \/ PrintSeparator \/ ForNext \/ CallDiscriminator \/ PrintLine

\* the interpreter runs the next statement for as long as the script has
\* one.  Every statement moves pc, and one is enabled exactly on the lines
\* below, so the step is stated on pc alone; a caller of the module may
\* never call, and no fairness is assumed of Call.
Advance ==
    /\ pc \in {"L27", "L28", "L29", "L30", "L31"}
    /\ pc' \in {"L28", "L29", "L30", "L31", "done", "error"}
    /\ pc' # pc

FairSpec == Spec /\ WF_pc(Advance)

(***************************************************************************)
(* Properties                                                              *)
(***************************************************************************)
\* SHA-256 of "global:" + name for the names called, computed from the
\* encoding and the digest directly
DigestOfGlobal ==
    [n \in TestNames \cup {InstructionList[j] : j \in 1..11} |->
        Sha256Digest(Utf8(<<103, 108, 111, 98, 97, 108, 58>> \o n))]

\* sha256(b"global:<name>").digest()[:8] of the 11 names, from CPython's
\* hashlib
KnownDiscriminators == <<
    <<175, 175, 109, 31, 13, 152, 155, 237>>,
    <<184, 36, 139, 254, 34, 134, 12, 162>>,
    <<226, 36, 37, 174, 188, 202, 124, 3>>,
    <<48, 236, 234, 108, 135, 184, 3, 30>>,
    <<202, 250, 10, 159, 19, 38, 17, 237>>,
    <<199, 93, 21, 83, 230, 88, 74, 6>>,
    <<58, 176, 24, 5, 191, 6, 131, 252>>,
    <<51, 98, 188, 112, 225, 222, 156, 167>>,
    <<190, 131, 243, 145, 100, 46, 86, 139>>,
    <<119, 176, 97, 188, 217, 194, 32, 154>>,
    <<180, 88, 124, 46, 245, 187, 221, 214>> >>

\* C1: every value get_discriminator returns is the first 8 bytes of the
\* SHA-256 digest of the UTF-8 encoding of "global:" followed by the name,
\* byte i of the result being byte i of the digest; for the 11 names of the
\* list these are the values hashlib gives.
C1_FirstEightBytesOfDigest ==
    \A k \in DOMAIN calls :
        ~calls[k].raised =>
            /\ DOMAIN calls[k].value = 1..8
            /\ \A i \in 1..8 :
                   calls[k].value[i] = DigestOfGlobal[calls[k].name][i]
            /\ \A j \in 1..11 :
                   calls[k].name = InstructionList[j]
                       => calls[k].value = KnownDiscriminators[j]

\* a run where the function returned for a name of the list, for non-ASCII
\* text and, before them, for all the names of the report
C1_Witness ==
    /\ Len(calls) = 13
    /\ calls[12].name = <<233, 8364, 128512>> /\ ~calls[12].raised
    /\ calls[13].name = InstructionList[1] /\ ~calls[13].raised

\* C2: every value get_discriminator returns is a sequence of exactly 8
\* integers in 0..255.
C2_EightBytes ==
    \A k \in DOMAIN calls :
        ~calls[k].raised =>
            /\ Len(calls[k].value) = 8
            /\ \A i \in 1..Len(calls[k].value) : calls[k].value[i] \in 0..255

\* the function has returned for the empty name and for a name of 50
\* characters
C2_Witness ==
    /\ Len(calls) = 13
    /\ calls[12].name = <<>> /\ ~calls[12].raised
    /\ Len(calls[13].name) = 50 /\ ~calls[13].raised

\* C3: two calls with the same name have the same outcome, whatever calls
\* were made before or between them.
C3_Deterministic ==
    \A j, k \in DOMAIN calls :
        calls[j].name = calls[k].name
            => /\ calls[j].raised = calls[k].raised
               /\ calls[j].value = calls[k].value

\* a name of the report called again by a later caller, after the other
\* names of the report and a call that raised
C3_Witness ==
    /\ Len(calls) = 13
    /\ calls[13].name = calls[1].name
    /\ ~calls[13].raised
    /\ calls[12].name # calls[1].name
    /\ calls[12].raised

\* the order the report is to follow
ReportOrder == <<
    \* "initialize"
    <<105, 110, 105, 116, 105, 97, 108, 105, 122, 101>>,
    \* "executeTransferHook"
    <<101, 120, 101, 99, 117, 116, 101, 84, 114, 97, 110, 115, 102, 101,
      114, 72, 111, 111, 107>>,
    \* "updateFeeConfig"
    <<117, 112, 100, 97, 116, 101, 70, 101, 101, 67, 111, 110, 102, 105,
      103>>,
    \* "addWhitelist"
    <<97, 100, 100, 87, 104, 105, 116, 101, 108, 105, 115, 116>>,
    \* "removeWhitelist"
    <<114, 101, 109, 111, 118, 101, 87, 104, 105, 116, 101, 108, 105, 115,
      116>>,
    \* "addBlacklist"
    <<97, 100, 100, 66, 108, 97, 99, 107, 108, 105, 115, 116>>,
    \* "removeBlacklist"
    <<114, 101, 109, 111, 118, 101, 66, 108, 97, 99, 107, 108, 105, 115,
      116>>,
    \* "setPermanentDelegate"
    <<115, 101, 116, 80, 101, 114, 109, 97, 110, 101, 110, 116, 68, 101,
      108, 101, 103, 97, 116, 101>>,
    \* "setBlacklistEnabled"
    <<115, 101, 116, 66, 108, 97, 99, 107, 108, 105, 115, 116, 69, 110,
      97, 98, 108, 101, 100>>,
    \* "setPaused"
    <<115, 101, 116, 80, 97, 117, 115, 101, 100>>,
    \* "closeConfig"
    <<99, 108, 111, 115, 101, 67, 111, 110, 102, 105, 103>> >>

\* s without its trailing spaces
RECURSIVE RStrip(_)
RStrip(s) ==
    IF s # <<>> /\ s[Len(s)] = 32 THEN RStrip(SubSeq(s, 1, Len(s) - 1)) ELSE s

\* the name a data line carries: its first 25 characters, padding removed
LineName(line) == RStrip(SubSeq(line, 1, 25))

\* the data lines of the output: what follows the title and the separator
DataLines == IF Len(out) > 2 THEN SubSeq(out, 3, Len(out)) ELSE <<>>

\* C4: the i-th data line printed carries the i-th name of the list
\* initialize, ..., closeConfig, and once the script has run every name is
\* on exactly one data line.
C4_ReportOrder ==
    /\ Len(DataLines) <= 11
    /\ \A i \in DOMAIN DataLines :
           Len(DataLines[i]) >= 25 /\ LineName(DataLines[i]) = ReportOrder[i]
    /\ pc = "done" =>
           \A j \in 1..11 :
               Cardinality({i \in DOMAIN DataLines :
                               LineName(DataLines[i]) = ReportOrder[j]}) = 1

\* the script has run and printed its last data line, closeConfig's
C4_Witness ==
    /\ pc = "done"
    /\ Len(DataLines) = 11
    /\ LineName(DataLines[11]) = ReportOrder[11]

\* the integers of the text "[n, n, ...]" read from position i on, cur
\* being the value of the digits of the item being read (-1: none yet);
\* <<-1>> when the text is not of that form
RECURSIVE ParseItems(_, _, _, _)
ParseItems(s, i, cur, acc) ==
    IF i > Len(s) THEN <<-1>>
    ELSE IF s[i] = 93 THEN
        IF i = Len(s) /\ cur >= 0 THEN Append(acc, cur)
        ELSE IF i = Len(s) /\ acc = <<>> THEN <<>>
        ELSE <<-1>>
    ELSE IF s[i] \in 48..57 /\ cur # 0 THEN
        ParseItems(s, i + 1, (IF cur < 0 THEN 0 ELSE 10 * cur) + s[i] - 48, acc)
    ELSE IF s[i] = 44 /\ cur >= 0 /\ i < Len(s) /\ s[i + 1] = 32 THEN
        ParseItems(s, i + 2, -1, Append(acc, cur))
    ELSE <<-1>>

ParseList(s) ==
    IF Len(s) >= 2 /\ s[1] = 91 THEN ParseItems(s, 2, -1, <<>>) ELSE <<-1>>

\* a line "<name padded>: [b1, ..., b8]" and the bytes it shows
IsDataLine(line) ==
    /\ Len(line) >= 29
    /\ line[26] = 58
    /\ line[27] = 32
    /\ Len(ParseList(SubSeq(line, 28, Len(line)))) = 8
    /\ \A i \in 1..8 : ParseList(SubSeq(line, 28, Len(line)))[i] \in 0..255

LineBytes(line) == ParseList(SubSeq(line, 28, Len(line)))

\* C5: the output is the title line, then a separator line of 50
\* repetitions of one character, then data lines; never more than 13 lines,
\* and exactly 13 once the script has run.
C5_ThirteenLines ==
    /\ Len(out) <= 13
    /\ Len(out) >= 1 => out[1] = Title
    /\ Len(out) >= 2 =>
           /\ Len(out[2]) = 50
           /\ \A i \in 1..Len(out[2]) : out[2][i] = out[2][1]
    /\ \A k \in 3..Len(out) : IsDataLine(out[k])
    /\ pc = "done" => Len(out) = 13
    /\ pc \in {"L27", "L28", "L30", "L31"} => Len(out) < 13

\* the script has run, and a caller has called the function since
C5_Witness ==
    /\ pc = "done"
    /\ Len(out) = 13
    /\ Len(calls) = 12

\* get_discriminator of the names of the list
DiscriminatorOf ==
    [n \in {InstructionList[j] : j \in 1..11} |-> get_discriminator(n)]

\* C6: every data line is the name left-justified and padded with spaces
\* to 25 characters, a colon as 26th character, and the discriminator of
\* that same name as 8 decimal integers; no name of the list is longer than
\* 25 characters.
C6_LineFormat ==
    /\ \A j \in DOMAIN instructions : Len(instructions[j]) <= 25
    /\ \A k \in 3..Len(out) :
           /\ IsDataLine(out[k])
           /\ LineName(out[k]) \in DOMAIN DiscriminatorOf
           /\ LineName(out[k]) = instructions[k - 2]
           /\ \A i \in 1..25 :
                  out[k][i] = IF i <= Len(instructions[k - 2])
                              THEN instructions[k - 2][i] ELSE 32
           /\ ~DiscriminatorOf[LineName(out[k])].raised
           /\ LineBytes(out[k]) = DiscriminatorOf[LineName(out[k])].value

\* the line of the longest name, setPermanentDelegate, has been printed
C6_Witness ==
    /\ Len(out) >= 10
    /\ LineName(out[10]) = InstructionList[8]
    /\ Len(InstructionList[8]) = 20
    /\ out[10][21] = 32

\* C7: two calls with different names of the list return different
\* discriminators, and the 11 data lines of the report show pairwise
\* different discriminators.
C7_PairwiseDistinct ==
    /\ \A j, k \in DOMAIN calls :
           /\ calls[j].name # calls[k].name
           /\ \E m \in 1..11 : calls[j].name = InstructionList[m]
           /\ \E m \in 1..11 : calls[k].name = InstructionList[m]
           => /\ ~calls[j].raised
              /\ ~calls[k].raised
              /\ calls[j].value # calls[k].value
    /\ \A j, k \in DOMAIN DataLines :
           j # k => LineBytes(DataLines[j]) # LineBytes(DataLines[k])

\* the report is complete: the function was called with initialize first
\* and closeConfig last, and all 11 lines are out
C7_Witness ==
    /\ Len(DataLines) = 11
    /\ Len(calls) = 11
    /\ calls[1].name = InstructionList[1]
    /\ calls[11].name = InstructionList[11]

\* C8 as stated: no call raises, whatever the text
C8_NeverRaises == \A k \in DOMAIN calls : ~calls[k].raised

\* C8, amended: a call raises exactly when the name holds a lone surrogate
\* code point (U+D800..U+DFFF), which UTF-8 cannot encode; for any other
\* text, the empty string and non-ASCII text included, it returns 8 bytes.
C8_RaisesOnlyOnSurrogates ==
    \A k \in DOMAIN calls :
        /\ calls[k].raised
               <=> \E i \in DOMAIN calls[k].name :
                       calls[k].name[i] \in 55296..57343
        /\ ~calls[k].raised => Len(calls[k].value) = 8

\* calls with the empty string and with non-ASCII text have returned
C8_Witness ==
    /\ Len(calls) = 13
    /\ calls[12].name = <<>> /\ ~calls[12].raised
    /\ calls[13].name = <<233, 8364, 128512>> /\ ~calls[13].raised

\* C9: every run of the script ends, after exactly 11 iterations (one per
\* item of the list, each calling the function once and printing one line),
\* without the error exit, and stays ended.
C9_Terminates ==
    /\ <>(pc = "done")
    /\ [](pc # "error")
    /\ [](pc = "done" => it = 11 /\ Len(DataLines) = 11 /\ Len(calls) >= 11)
    /\ [][pc = "done" => pc' = "done"]_vars
    /\ [][it' # it => it' = it + 1 /\ ix' = InstructionList[it']]_vars

\* the script has ended and the iterator has consumed the 11 items
C9_Witness == pc = "done" /\ it = 11 /\ ix = InstructionList[11]

\* C10: a call of get_discriminator changes neither the list nor the
\* output, and the list is at every point of the run what it was at the
\* start.
C10_NoSideEffects ==
    /\ [][calls' # calls => instructions' = instructions /\ out' = out]_vars
    /\ [](instructions = InstructionList)

\* the script has run, the function having been called by it and after it
C10_Witness ==
    /\ pc = "done"
    /\ Len(calls) = 13
    /\ instructions = InstructionList

=============================================================================
